---- MODULE Spec2Model ----
(***************************************************************************)
(* Model of the Universe of src/lib.rs: a two-state cellular automaton on  *)
(* a toroidal grid, stored in a FixedBitSet `cells`, with a companion      *)
(* bitset `next_cells_to_be_updated` that limits the work of `tick`.       *)
(*                                                                         *)
(* GRID_WIDTH = 345 and GRID_HEIGHT = 149 in the source; the model builds  *)
(* the universe with small dimensions instead (see the bounds).           *)
(*                                                                         *)
(* A FixedBitSet is a function from 0..len-1 to BOOLEAN: reading a bit     *)
(* outside the buffer yields false, writing one panics.  A panic leaves    *)
(* the memory as it is at that point and ends the use of the universe.     *)
(***************************************************************************)
EXTENDS Integers, Sequences, FiniteSets, TLC

VARIABLES
    rule,                       \* Universe.rule: RuleInBitSet
    width,                      \* Universe.width
    height,                     \* Universe.height
    cells,                      \* Universe.cells
    next_cells_to_be_updated,   \* Universe.next_cells_to_be_updated
    panicked,                   \* a call has panicked
    op,                         \* history: name of the last call
    args,                       \* history: arguments of the last call
    pre_cells,                  \* history: cells when the last call started
    pre_dirty,                  \* history: next_cells_to_be_updated when the last call started
    given_rule,                 \* history: the Rule handed to the constructor
    pattern,                    \* history: the positions handed to the constructor, while every
                                \*          call since was a tick; Edited after any other call
    naive,                      \* reference engine: a grid that is fully rescanned every generation
    gen,                        \* history: number of ticks so far
    nops,                       \* history: number of calls so far
    nturn,                      \* history: number of calls of turn_cells_alive so far
    streak                      \* history: 2 when the last call repeated the call before it, else 1

vars == <<rule, width, height, cells, next_cells_to_be_updated, panicked,
          op, args, pre_cells, pre_dirty, given_rule, pattern, naive, gen, nops, nturn, streak>>

----------------------------------------------------------------------------
(* Bounds *)

\* where every method is called the universe is built MaxW wide and MaxH
\* high, in place of GRID_WIDTH by GRID_HEIGHT
MaxW == 4
MaxH == 3
\* where only tick is called it is built 3..MaxDim + 1 wide and 3..MaxDim high
MaxDim == 3
\* live cells of an initial configuration
MaxLive == 2
\* calls of tick where only tick is called
MaxGen == 4
\* calls where every method is called
MaxOps == 2
\* calls of turn_cells_alive among them
MaxTurn == 1
\* positions in a list handed to new or turn_cells_alive
MaxList == 2
\* the glider universes are 5..MaxGliderDim wide and 5..MaxGliderDim + 1 high
MaxGliderDim == 5
\* calls where tick is interleaved with edits inside the grid
MaxEditOps == 4
\* cells seeded in the universes of those interleavings
MaxSeed == 1

----------------------------------------------------------------------------
(* Rule *)

freeze == [born |-> <<>>, survive |-> <<0, 1, 2, 3, 4, 5, 6, 7, 8>>]

life_without_death == [born |-> <<3>>, survive |-> <<0, 1, 2, 3, 4, 5, 6, 7, 8>>]

modified_life_without_death == [born |-> <<1, 3>>, survive |-> <<0, 1, 2, 3, 4, 5, 6, 7, 8>>]

life == [born |-> <<3>>, survive |-> <<2, 3>>]

maze == [born |-> <<3>>, survive |-> <<1, 2, 3, 4, 5>>]

morley == [born |-> <<3, 6, 8>>, survive |-> <<2, 4, 5>>]

\* Vec::contains
contains(v, x) == \E k \in 1..Len(v) : v[k] = x

\* mutant: the two bitsets are built from each other's list
to_bit_set_swapped(r) ==
    [born    |-> [i \in 0..8 |-> contains(r.survive, i)],
     survive |-> [i \in 0..8 |-> contains(r.born, i)]]

to_bit_set(r) ==
    [born    |-> [i \in 0..8 |-> contains(r.born, i)],
     survive |-> [i \in 0..8 |-> contains(r.survive, i)]]

----------------------------------------------------------------------------
(* PositionSet *)

glider == <<<<0, 0>>, <<1, 1>>, <<1, 2>>, <<2, 0>>, <<2, 1>>>>

empty == <<>>

----------------------------------------------------------------------------
(* FixedBitSet *)

with_capacity(n) == [i \in 0..(n - 1) |-> FALSE]

\* bits[idx]: a bit outside the buffer reads as false
Bit(bits, idx) == idx \in DOMAIN bits /\ bits[idx]

\* bits.set_range(.., v)
set_range(bits, v) == [i \in DOMAIN bits |-> v]

\* bits.set(idx, v) inside the buffer (outside it the call panics)
set_bit(bits, idx, v) == [bits EXCEPT ![idx] = v]

----------------------------------------------------------------------------
(* Universe: private helpers *)

get_index(w, row, column) == row * w + column

\* mutant: the row above is reached with height + 1 instead of height - 1
DeltasSignSlip(w, h) ==
    LET dr == <<h + 1, 0, 1>>
        dc == <<w - 1, 0, 1>>
    IN  [k \in 1..9 |-> <<dr[((k - 1) \div 3) + 1], dc[((k - 1) % 3) + 1]>>]

\* the nine (delta_row, delta_col) pairs in the order of the two nested loops
Deltas(w, h) ==
    LET dr == <<h - 1, 0, 1>>
        dc == <<w - 1, 0, 1>>
    IN  [k \in 1..9 |-> <<dr[((k - 1) \div 3) + 1], dc[((k - 1) % 3) + 1]>>]

\* the loops from the k-th pair of deltas on; ds = Deltas(w, h)
RECURSIVE CountFrom(_, _, _, _, _, _, _)
CountFrom(k, ds, w, h, bits, row, column) ==
    IF k > 9 THEN 0
    ELSE LET d == ds[k]
             neighbor_row == (row + d[1]) % h
             neighbor_col == (column + d[2]) % w
             idx == get_index(w, neighbor_row, neighbor_col)
             rest == CountFrom(k + 1, ds, w, h, bits, row, column)
         IN  IF d[1] = 0 /\ d[2] = 0 THEN rest
             ELSE (IF Bit(bits, idx) THEN 1 ELSE 0) + rest

live_neighbor_count(w, h, bits, row, column) ==
    CountFrom(1, Deltas(w, h), w, h, bits, row, column)

\* One FixedBitSet::set(idx, true) of the marking loop; m = [bits, ok].
MarkOne(m, idx) ==
    IF ~m.ok THEN m
    ELSE IF idx \in DOMAIN m.bits THEN [bits |-> set_bit(m.bits, idx, TRUE), ok |-> TRUE]
    ELSE [bits |-> m.bits, ok |-> FALSE]

\* the loops from the k-th pair of deltas on; ds = Deltas(w, h)
RECURSIVE MarkFrom(_, _, _, _, _, _, _)
MarkFrom(k, ds, w, h, m, row, column) ==
    IF k > 9 \/ ~m.ok THEN m
    ELSE LET d == ds[k]
             neighbor_row == (row + d[1]) % h
             neighbor_col == (column + d[2]) % w
             idx == get_index(w, neighbor_row, neighbor_col)
         IN  MarkFrom(k + 1, ds, w, h, MarkOne(m, idx), row, column)

\* mutant: only the cell itself is marked, its neighbours are not
mark_cell_only(w, h, m, row, column) ==
    IF ~m.ok THEN m
    ELSE IF w = 0 \/ h = 0 THEN [bits |-> m.bits, ok |-> FALSE]
    ELSE MarkOne(m, get_index(w, row, column))

\* m = [bits |-> dirty bitset, ok |-> no panic so far].  A zero dimension
\* panics in the first remainder, before any bit is set.
mark_neighbor_to_update(w, h, m, row, column) ==
    IF ~m.ok THEN m
    ELSE IF w = 0 \/ h = 0 THEN [bits |-> m.bits, ok |-> FALSE]
    ELSE MarkFrom(1, Deltas(w, h), w, h, m, row, column)

\* for (row, col) in cells: set the cell, then mark its neighbourhood.
\* u = [cells, dirty, ok]; the first panic ends the loop.
RECURSIVE TurnFrom(_, _, _, _, _)
TurnFrom(k, w, h, u, list) ==
    IF k > Len(list) \/ ~u.ok THEN u
    ELSE LET row == list[k][1]
             col == list[k][2]
             idx == get_index(w, row, col)
         IN  IF idx \notin DOMAIN u.cells
             THEN [u EXCEPT !.ok = FALSE]
             ELSE LET m == mark_neighbor_to_update(w, h, [bits |-> u.dirty, ok |-> TRUE], row, col)
                  IN  TurnFrom(k + 1, w, h,
                               [cells |-> set_bit(u.cells, idx, TRUE), dirty |-> m.bits, ok |-> m.ok],
                               list)

\* mutant: only the neighbourhood of the first listed cell is marked
turn_marks_first_only(w, h, bits, dirty, list) ==
    LET u == TurnFrom(1, w, h, [cells |-> bits, dirty |-> dirty, ok |-> TRUE], list)
    IN  IF Len(list) = 0 \/ ~u.ok THEN u
        ELSE [u EXCEPT !.dirty =
                  mark_neighbor_to_update(w, h, [bits |-> dirty, ok |-> TRUE],
                                          list[1][1], list[1][2]).bits]

turn_cells_alive(w, h, bits, dirty, list) ==
    TurnFrom(1, w, h, [cells |-> bits, dirty |-> dirty, ok |-> TRUE], list)

----------------------------------------------------------------------------
(* Universe: public methods *)

\* the (row, col) pairs in the order of `for row in 0..height { for col in 0..width`
RowMajor(w, h) ==
    IF w * h = 0 THEN <<>>
    ELSE [k \in 1..(w * h) |-> <<(k - 1) \div w, (k - 1) % w>>]

\* mutant: the shadow copy is written at the index of (col, row)
TickCellSwapped(r, w, h, bits, current, t, row, col) ==
    LET idx  == get_index(w, row, col)
        out  == get_index(w, col, row)
        cell == Bit(bits, idx)
        n    == live_neighbor_count(w, h, bits, row, col)
    IN  IF ~t.m.ok \/ ~Bit(current, idx) \/ out \notin DOMAIN t.next THEN t
        ELSE IF ~cell /\ r.born[n]
             THEN [next |-> set_bit(t.next, out, TRUE),
                   m    |-> mark_neighbor_to_update(w, h, t.m, row, col)]
        ELSE IF cell /\ ~r.survive[n]
             THEN [next |-> set_bit(t.next, out, FALSE),
                   m    |-> mark_neighbor_to_update(w, h, t.m, row, col)]
        ELSE t

\* mutant: the dying branch repeats the write of the birth branch
TickCellKeepsAlive(r, w, h, bits, current, t, row, col) ==
    LET idx  == get_index(w, row, col)
        cell == Bit(bits, idx)
        n    == live_neighbor_count(w, h, bits, row, col)
    IN  IF ~t.m.ok \/ ~Bit(current, idx) THEN t
        ELSE IF ~cell /\ r.born[n]
             THEN [next |-> set_bit(t.next, idx, TRUE),
                   m    |-> mark_neighbor_to_update(w, h, t.m, row, col)]
        ELSE IF cell /\ ~r.survive[n]
             THEN [next |-> set_bit(t.next, idx, TRUE),
                   m    |-> mark_neighbor_to_update(w, h, t.m, row, col)]
        ELSE t

\* mutant: the cell and its neighbours are read from the shadow copy
TickCellInPlace(r, w, h, bits, current, t, row, col) ==
    LET idx  == get_index(w, row, col)
        cell == Bit(t.next, idx)
        n    == live_neighbor_count(w, h, t.next, row, col)
    IN  IF ~t.m.ok \/ ~Bit(current, idx) THEN t
        ELSE IF ~cell /\ r.born[n]
             THEN [next |-> set_bit(t.next, idx, TRUE),
                   m    |-> mark_neighbor_to_update(w, h, t.m, row, col)]
        ELSE IF cell /\ ~r.survive[n]
             THEN [next |-> set_bit(t.next, idx, FALSE),
                   m    |-> mark_neighbor_to_update(w, h, t.m, row, col)]
        ELSE t

\* mutant: every evaluated cell marks its neighbourhood, flipped or not
TickCellMarksAlways(r, w, h, bits, current, t, row, col) ==
    LET idx  == get_index(w, row, col)
        cell == Bit(bits, idx)
        n    == live_neighbor_count(w, h, bits, row, col)
    IN  IF ~t.m.ok \/ ~Bit(current, idx) THEN t
        ELSE IF ~cell /\ r.born[n]
             THEN [next |-> set_bit(t.next, idx, TRUE),
                   m    |-> mark_neighbor_to_update(w, h, t.m, row, col)]
        ELSE IF cell /\ ~r.survive[n]
             THEN [next |-> set_bit(t.next, idx, FALSE),
                   m    |-> mark_neighbor_to_update(w, h, t.m, row, col)]
        ELSE [next |-> t.next,
              m    |-> mark_neighbor_to_update(w, h, t.m, row, col)]

\* The body of the two loops of tick for one cell.  t = [next, m]: the shadow
\* copy and the dirty set being rebuilt; `bits` and `current` are the grid and
\* the dirty set as they were when the tick started.
TickCell(r, w, h, bits, current, t, row, col) ==
    LET idx  == get_index(w, row, col)
        cell == Bit(bits, idx)
        n    == live_neighbor_count(w, h, bits, row, col)
    IN  IF ~t.m.ok \/ ~Bit(current, idx) THEN t
        ELSE IF ~cell /\ r.born[n]
             THEN [next |-> set_bit(t.next, idx, TRUE),
                   m    |-> mark_neighbor_to_update(w, h, t.m, row, col)]
        ELSE IF cell /\ ~r.survive[n]
             THEN [next |-> set_bit(t.next, idx, FALSE),
                   m    |-> mark_neighbor_to_update(w, h, t.m, row, col)]
        ELSE t

RECURSIVE TickFrom(_, _, _, _, _, _, _, _)
TickFrom(k, order, r, w, h, bits, current, t) ==
    IF k > Len(order) THEN t
    ELSE TickFrom(k + 1, order, r, w, h, bits, current,
                  TickCell(r, w, h, bits, current, t, order[k][1], order[k][2]))

\* mutant: the dirty set is not cleared before it is rebuilt
tick_keeps_marks(order, r, w, h, bits, dirty) ==
    LET t == TickFrom(1, order, r, w, h, bits, dirty,
                      [next |-> bits, m |-> [bits |-> dirty, ok |-> TRUE]])
    IN  [cells |-> IF t.m.ok THEN t.next ELSE bits,
         dirty |-> t.m.bits,
         ok    |-> t.m.ok]

\* tick with the dirty cells visited in `order`: [cells, dirty, ok].  When a
\* marking panics, self.cells has not been replaced by the shadow copy.
tick_in(order, r, w, h, bits, dirty) ==
    LET t == TickFrom(1, order, r, w, h, bits, dirty,
                      [next |-> bits, m |-> [bits |-> set_range(dirty, FALSE), ok |-> TRUE]])
    IN  [cells |-> IF t.m.ok THEN t.next ELSE bits,
         dirty |-> t.m.bits,
         ok    |-> t.m.ok]

tick(r, w, h, bits, dirty) == tick_in(RowMajor(w, h), r, w, h, bits, dirty)

\* mutant: only the seeded cells start marked
new_marks_seed_only(w, h, initial, r) ==
    LET size == w * h
    IN  [rule   |-> to_bit_set(r),
         width  |-> w,
         height |-> h,
         cells  |-> [i \in 0..(size - 1) |-> contains(initial, <<i \div w, i % w>>)],
         dirty  |-> [i \in 0..(size - 1) |-> contains(initial, <<i \div w, i % w>>)]]

\* mutant: index i is decoded as (i % width, i / width)
new_transposed(w, h, initial, r) ==
    LET size == w * h
    IN  [rule   |-> to_bit_set(r),
         width  |-> w,
         height |-> h,
         cells  |-> [i \in 0..(size - 1) |-> contains(initial, <<i % w, i \div w>>)],
         dirty  |-> set_range(with_capacity(size), TRUE)]

\* Universe::new for GRID_WIDTH = w, GRID_HEIGHT = h
new(w, h, initial, r) ==
    LET size == w * h
    IN  [rule   |-> to_bit_set(r),
         width  |-> w,
         height |-> h,
         cells  |-> [i \in 0..(size - 1) |-> contains(initial, <<i \div w, i % w>>)],
         dirty  |-> set_range(with_capacity(size), TRUE)]

\* Universe::random: alive[i] is the outcome of `Math::random() < life_chance`
\* for cell i
random(w, h, alive, r) ==
    LET size == w * h
    IN  [rule   |-> to_bit_set(r),
         width  |-> w,
         height |-> h,
         cells  |-> [i \in 0..(size - 1) |-> alive[i]],
         dirty  |-> set_range(with_capacity(size), TRUE)]

\* mutant: the cell is set alive instead of being negated
toggle_sets_alive(w, h, bits, dirty, row, column) ==
    LET idx == get_index(w, row, column)
    IN  IF idx \notin DOMAIN bits
        THEN [cells |-> bits, dirty |-> dirty, ok |-> FALSE]
        ELSE LET m == mark_neighbor_to_update(w, h, [bits |-> dirty, ok |-> TRUE], row, column)
             IN  [cells |-> set_bit(bits, idx, TRUE), dirty |-> m.bits, ok |-> m.ok]

\* mutant: the cell is negated and its neighbourhood is not marked
toggle_without_marking(w, h, bits, dirty, row, column) ==
    LET idx == get_index(w, row, column)
    IN  IF idx \notin DOMAIN bits
        THEN [cells |-> bits, dirty |-> dirty, ok |-> FALSE]
        ELSE [cells |-> set_bit(bits, idx, ~Bit(bits, idx)), dirty |-> dirty, ok |-> TRUE]

\* toggle_cell: [cells, dirty, ok]
toggle_cell(w, h, bits, dirty, row, column) ==
    LET idx == get_index(w, row, column)
    IN  IF idx \notin DOMAIN bits
        THEN [cells |-> bits, dirty |-> dirty, ok |-> FALSE]
        ELSE LET m == mark_neighbor_to_update(w, h, [bits |-> dirty, ok |-> TRUE], row, column)
             IN  [cells |-> set_bit(bits, idx, ~Bit(bits, idx)), dirty |-> m.bits, ok |-> m.ok]

\* set_width / set_height: the field is assigned and the cells are cleared;
\* neither buffer is reallocated and the dirty set is not touched.
set_width(bits, n) == [width |-> n, cells |-> set_range(bits, FALSE)]

set_height(bits, n) == [height |-> n, cells |-> set_range(bits, FALSE)]

----------------------------------------------------------------------------
(* Reference engine: a grid indexed by (row, col) that is rescanned in full *)

Range(f) == {f[x] : x \in DOMAIN f}

Positions(w, h) == (0..(h - 1)) \X (0..(w - 1))

Offsets == ({-1, 0, 1} \X {-1, 0, 1}) \ {<<0, 0>>}

\* the toroidal neighbour of p in direction d
Torus(w, h, p, d) == <<(p[1] + d[1]) % h, (p[2] + d[2]) % w>>

NaiveCount(g, w, h, p) == Cardinality({d \in Offsets : g[Torus(w, h, p, d)]})

NaiveStep(g, w, h, r) ==
    [p \in DOMAIN g |->
        IF g[p] THEN NaiveCount(g, w, h, p) \in Range(r.survive)
        ELSE NaiveCount(g, w, h, p) \in Range(r.born)]

\* the grid that a bitset shows through get_index
GridOf(bits, w, h) == [p \in Positions(w, h) |-> Bit(bits, get_index(w, p[1], p[2]))]

\* the 9-cell toroidal neighbourhood of p: p and its 8 neighbours
Neighbourhood(w, h, p) == {Torus(w, h, p, d) : d \in {-1, 0, 1} \X {-1, 0, 1}}

InRange(w, h, p) == p[1] \in 0..(h - 1) /\ p[2] \in 0..(w - 1)

----------------------------------------------------------------------------
(* Inputs *)

Presets == {freeze, life_without_death, modified_life_without_death, life, maze, morley}

\* rules that no preset gives: birth without neighbours, repeated and
\* out-of-range counts
Custom == {[born |-> <<0, 3>>, survive |-> <<1, 8, 8>>],
           [born |-> <<2, 9>>, survive |-> <<>>]}

Rules == Presets \cup Custom

\* the rules of the universes on which every method is called
EditRules == {life, modified_life_without_death}

Edited == <<"edited">>

GridDims == (3..(MaxDim + 1)) \X (3..MaxDim)

\* coordinates handed to the universe: every cell, and a position one beyond
\* the last column, one beyond the last row, and one beyond both
Coords(w, h) == Positions(w, h) \cup {<<0, w>>, <<h, 0>>, <<h, w>>}

\* the four corners of the grid, each next to the other three across the edges
Corners(w, h) == {0, h - 1} \X {0, w - 1}

RECURSIVE SeqsUpTo(_, _)
SeqsUpTo(S, n) ==
    IF n = 0 THEN {<<>>}
    ELSE LET shorter == SeqsUpTo(S, n - 1)
         IN  shorter \cup {Append(q, x) : q \in shorter, x \in S}

\* the position list that holds the cells of S once each, in row-major order
ListOf(S, w, h) == SelectSeq(RowMajor(w, h), LAMBDA p : p \in S)

SparseLists(w, h, n) ==
    {ListOf(S, w, h) : S \in {T \in SUBSET Positions(w, h) : Cardinality(T) <= n}}

----------------------------------------------------------------------------
(* The state machine *)

Built(u, name, initial, r) ==
    /\ rule = u.rule
    /\ width = u.width
    /\ height = u.height
    /\ cells = u.cells
    /\ next_cells_to_be_updated = u.dirty
    /\ panicked = FALSE
    /\ op = name
    /\ args = initial
    /\ pre_cells = u.cells
    /\ pre_dirty = u.dirty
    /\ given_rule = r
    /\ pattern = initial
    /\ naive = [p \in Positions(u.width, u.height) |-> p \in Range(initial)]
    /\ gen = 0
    /\ nops = 0
    /\ nturn = 0
    /\ streak = 1

\* Universe::new with a short position list, in or out of range
InitNew ==
    \E r \in EditRules, initial \in SeqsUpTo(Coords(MaxW, MaxH), MaxList) :
        Built(new(MaxW, MaxH, initial, r), "new", initial, r)

\* Universe::random; the position list of the history names the cells drawn alive
InitRandom ==
    \E r \in EditRules, initial \in SparseLists(MaxW, MaxH, MaxList) :
        Built(random(MaxW, MaxH, [i \in 0..(MaxW * MaxH - 1) |-> <<i \div MaxW, i % MaxW>> \in Range(initial)], r),
              "random", initial, r)

\* Universe::new with every sparse configuration, on every grid
InitSparse ==
    \E r \in Rules, d \in GridDims :
        \E initial \in SparseLists(d[1], d[2], MaxLive) :
            Built(new(d[1], d[2], initial, r), "new", initial, r)

\* Universe::new(PositionSet::glider(), rule)
InitGlider ==
    \E r \in Rules, w \in 5..MaxGliderDim, h \in 5..(MaxGliderDim + 1) :
        Built(new(w, h, glider, r), "new", glider, r)

\* Universe::new with at most MaxSeed cells, all of them in the grid
InitEdit ==
    \E r \in EditRules, initial \in SparseLists(MaxW, MaxH, MaxSeed) :
        Built(new(MaxW, MaxH, initial, r), "new", initial, r)

Init == InitNew \/ InitRandom

InitTick == InitSparse \/ InitGlider

\* what every call leaves in the history
Called(name, a, isTick) ==
    /\ op' = name
    /\ args' = a
    /\ pre_cells' = cells
    /\ pre_dirty' = next_cells_to_be_updated
    /\ given_rule' = given_rule
    /\ pattern' = IF isTick THEN pattern ELSE Edited
    /\ gen' = IF isTick THEN gen + 1 ELSE gen
    /\ nops' = nops + 1
    /\ nturn' = IF name = "turn_cells_alive" THEN nturn + 1 ELSE nturn
    /\ streak' = IF op = name /\ args = a THEN 2 ELSE 1
    /\ naive' = IF isTick THEN NaiveStep(naive, width, height, given_rule)
                ELSE GridOf(cells', width', height')

TickStep ==
    /\ ~panicked
    /\ \E u \in {tick(rule, width, height, cells, next_cells_to_be_updated)} :
           /\ cells' = u.cells
           /\ next_cells_to_be_updated' = u.dirty
           /\ panicked' = ~u.ok
    /\ UNCHANGED <<rule, width, height>>
    /\ Called("tick", <<>>, TRUE)

Tick == nops < MaxOps /\ TickStep

TickOnly == gen < MaxGen /\ TickStep

\* universe.toggle_cell(p[1], p[2])
ToggleAt(p) ==
    /\ \E u \in {toggle_cell(width, height, cells, next_cells_to_be_updated, p[1], p[2])} :
           /\ cells' = u.cells
           /\ next_cells_to_be_updated' = u.dirty
           /\ panicked' = ~u.ok
    /\ UNCHANGED <<rule, width, height>>
    /\ Called("toggle_cell", p, FALSE)

\* universe.turn_cells_alive(list)
TurnWith(list) ==
    /\ \E u \in {turn_cells_alive(width, height, cells, next_cells_to_be_updated, list)} :
           /\ cells' = u.cells
           /\ next_cells_to_be_updated' = u.dirty
           /\ panicked' = ~u.ok
    /\ UNCHANGED <<rule, width, height>>
    /\ Called("turn_cells_alive", list, FALSE)

ToggleCell ==
    /\ ~panicked
    /\ nops < MaxOps
    /\ \E p \in Coords(width, height) : ToggleAt(p)

TurnCellsAlive ==
    /\ ~panicked
    /\ nops < MaxOps
    /\ nturn < MaxTurn
    /\ \E list \in SeqsUpTo(Coords(width, height), MaxList) : TurnWith(list)

SetWidth ==
    /\ ~panicked
    /\ nops < MaxOps
    /\ \E n \in 0..(MaxW + 1) :
        /\ \E u \in {set_width(cells, n)} :
               /\ width' = u.width
               /\ cells' = u.cells
        /\ UNCHANGED <<rule, height, next_cells_to_be_updated, panicked>>
        /\ Called("set_width", <<n>>, FALSE)

SetHeight ==
    /\ ~panicked
    /\ nops < MaxOps
    /\ \E n \in 0..(MaxH + 1) :
        /\ \E u \in {set_height(cells, n)} :
               /\ height' = u.height
               /\ cells' = u.cells
        /\ UNCHANGED <<rule, width, next_cells_to_be_updated, panicked>>
        /\ Called("set_height", <<n>>, FALSE)

Next == Tick \/ ToggleCell \/ TurnCellsAlive \/ SetWidth \/ SetHeight

Spec == Init /\ [][Next]_vars

NextTick == TickOnly

SpecTick == InitTick /\ [][NextTick]_vars

\* the first tick of a universe as new or random has built it
FirstTick == nops = 0 /\ TickStep

NextNew == FirstTick

SpecNew == Init /\ [][NextNew]_vars

\* tick interleaved with edits at coordinates of the grid
TickEdit == nops < MaxEditOps /\ TickStep

ToggleEdit ==
    /\ ~panicked
    /\ nops < MaxEditOps
    /\ \E p \in Positions(width, height) : ToggleAt(p)

TurnEdit ==
    /\ ~panicked
    /\ nops < MaxEditOps
    /\ nturn < MaxTurn
    /\ \E list \in SeqsUpTo(Corners(width, height), MaxList) : TurnWith(list)

NextEdit == TickEdit \/ ToggleEdit \/ TurnEdit

SpecEdit == InitEdit /\ [][NextEdit]_vars

----------------------------------------------------------------------------
(* Properties *)

\* the cells of the grid that are alive, as (row, col) pairs
Live(bits, w, h) == {p \in Positions(w, h) : Bit(bits, get_index(w, p[1], p[2]))}

\* the indices marked in a bitset
Marked(bits) == {i \in DOMAIN bits : bits[i]}

\* C1: Full-scan equivalence.  After any number of ticks of a universe built
\* by new, with no other call in between, the grid is cell for cell the grid
\* of the reference engine, which started from the same positions and
\* re-evaluated every cell in every generation under the same rule.
FullScanEquivalence == GridOf(cells, width, height) = naive

\* a third or later tick that consumed a partial dirty set and changed the grid
FullScanWitness ==
    /\ op = "tick"
    /\ gen >= 3
    /\ \E i \in DOMAIN pre_dirty : ~pre_dirty[i]
    /\ cells # pre_cells
    /\ GridOf(cells, width, height) = naive

\* C2: Dirty-set soundness.  Every cell whose value differs between the grid
\* before a tick and the grid after it was marked in
\* next_cells_to_be_updated when that tick started.
DirtySetSoundness ==
    op = "tick" =>
        \A i \in DOMAIN cells : cells[i] # pre_cells[i] => Bit(pre_dirty, i)

\* a tick that started with some cells unmarked and changed some cell
DirtySetWitness ==
    /\ op = "tick"
    /\ \E i \in DOMAIN pre_dirty : ~pre_dirty[i]
    /\ \E i \in DOMAIN cells : cells[i] # pre_cells[i] /\ pre_dirty[i]

\* C4: Glider translation.  A universe built with the glider pattern under
\* Rule::life on a grid of at least 5 x 5 cells has exactly 5 live cells after
\* exactly 4 ticks: the 5 initial cells moved by one row and one column,
\* modulo the dimensions.
GliderTranslation ==
    (pattern = glider /\ given_rule = life /\ width >= 5 /\ height >= 5 /\ gen = 4) =>
        /\ Cardinality(Live(cells, width, height)) = 5
        /\ Live(cells, width, height) =
               {<<(p[1] + 1) % height, (p[2] + 1) % width>> : p \in Range(glider)}

\* the glider after 4 ticks on the smallest grid, where (3, 2) is now alive
GliderWitness ==
    /\ pattern = glider /\ given_rule = life /\ gen = 4
    /\ width = 5 /\ height = 5
    /\ <<3, 2>> \in Live(cells, width, height)
    /\ <<0, 0>> \notin Live(cells, width, height)

\* C5: An isolated cell dies under life.  In a universe built by new with
\* Rule::life whose only live cell has no live neighbour, that cell and the
\* whole grid are dead after one tick.
IsolatedCellDies ==
    (op = "tick" /\ gen = 1 /\ given_rule = life /\ Len(pattern) = 1
       /\ Cardinality(Marked(pre_cells)) = 1
       /\ \A p \in Live(pre_cells, width, height) :
              live_neighbor_count(width, height, pre_cells, p[1], p[2]) = 0) =>
        \A i \in DOMAIN cells : ~cells[i]

\* the first tick of a life universe seeded with the single cell (1, 2)
IsolatedCellWitness ==
    /\ op = "tick" /\ gen = 1 /\ given_rule = life
    /\ pattern = <<<<1, 2>>>>
    /\ pre_cells[get_index(width, 1, 2)]
    /\ \A i \in DOMAIN cells : ~cells[i]

\* C3: Toroidal neighbour count.  For every cell of the grid,
\* live_neighbor_count is the number of live cells among the eight positions
\* ((row + dr) mod height, (col + dc) mod width) with dr, dc in {-1, 0, 1}
\* and (dr, dc) # (0, 0), and lies in 0..8.
ToroidalNeighbourCount ==
    \A p \in Positions(width, height) :
        /\ live_neighbor_count(width, height, cells, p[1], p[2])
               = NaiveCount(GridOf(cells, width, height), width, height, p)
        /\ live_neighbor_count(width, height, cells, p[1], p[2]) \in 0..8

\* C6: Resize resets to empty and fully dirty.  After set_width or
\* set_height every cell of the grid is dead and every cell of the grid is
\* marked in next_cells_to_be_updated.
ResizeResets ==
    (op \in {"set_width", "set_height"}) =>
        \A p \in Positions(width, height) :
            /\ ~Bit(cells, get_index(width, p[1], p[2]))
            /\ Bit(next_cells_to_be_updated, get_index(width, p[1], p[2]))

\* C7: Grid size invariant.  The cell buffer and the dirty bitset each hold
\* exactly width * height cells, so that row * width + column is an index of
\* both for every cell of the grid.
GridSizeInvariant ==
    /\ Cardinality(DOMAIN cells) = width * height
    /\ Cardinality(DOMAIN next_cells_to_be_updated) = width * height
    /\ \A p \in Positions(width, height) :
           /\ get_index(width, p[1], p[2]) \in DOMAIN cells
           /\ get_index(width, p[1], p[2]) \in DOMAIN next_cells_to_be_updated

\* the positions of a call that lie outside the grid
Invalid(list) == {k \in DOMAIN list : ~InRange(width, height, list[k])}

\* C8: Invalid coordinates are rejected without effect.  new, toggle_cell
\* and turn_cells_alive with a coordinate outside the grid report an error to
\* the caller; the edits leave the grid and the dirty set as they were, and
\* new seeds no cell.
InvalidCoordinateRejected ==
    /\ (op = "new" /\ Invalid(args) # {}) =>
           (panicked /\ \A i \in DOMAIN cells : ~cells[i])
    /\ (op = "toggle_cell" /\ ~InRange(width, height, args)) =>
           (panicked /\ cells = pre_cells /\ next_cells_to_be_updated = pre_dirty)
    /\ (op = "turn_cells_alive" /\ Invalid(args) # {}) =>
           (panicked /\ cells = pre_cells /\ next_cells_to_be_updated = pre_dirty)

\* C9: Toggle pairing.  Two calls of toggle_cell(r, c) in a row, with (r, c)
\* in range, leave every cell of the grid with the value it had before the
\* first call.
TogglePairing ==
    [][(/\ op = "toggle_cell" /\ ~panicked /\ InRange(width, height, args)
        /\ op' = "toggle_cell" /\ args' = args /\ ~panicked')
          => cells' = pre_cells]_vars

\* the second of two equal calls of toggle_cell has returned
TogglePairingWitness ==
    /\ op = "toggle_cell" /\ streak = 2 /\ ~panicked
    /\ InRange(width, height, args)
    /\ cells # pre_cells
    /\ \E i \in DOMAIN cells : cells[i]

\* the indices of the 9-cell neighbourhoods of the positions of a list
NeighbourhoodIndices(list) ==
    UNION {{get_index(width, q[1], q[2]) : q \in Neighbourhood(width, height, list[k])} :
               k \in DOMAIN list}

FreshGridFullyDirty ==
    /\ (op \in {"new", "random"}) =>
           /\ DOMAIN next_cells_to_be_updated = 0..(width * height - 1)
           /\ \A p \in Positions(width, height) :
                  Bit(next_cells_to_be_updated, get_index(width, p[1], p[2]))
    /\ (op = "tick" /\ nops = 1) =>
           /\ \A p \in Positions(width, height) :
                  Bit(pre_dirty, get_index(width, p[1], p[2]))
           /\ GridOf(cells, width, height)
                  = NaiveStep(GridOf(pre_cells, width, height), width, height, given_rule)

\* the first tick of a universe seeded with one cell started fully dirty and
\* changed the grid
FreshGridWitness ==
    /\ op = "tick" /\ nops = 1 /\ ~panicked
    /\ Len(pattern) = 1
    /\ Cardinality(Marked(pre_cells)) = 1
    /\ Marked(pre_dirty) = 0..(width * height - 1)
    /\ cells # pre_cells

\* C12: Construction seeds exactly the given cells.  After new(initial, rule)
\* with every coordinate in range, cell (row, col) is alive if and only if
\* (row, col) occurs in the list, whatever the order and the repetitions of
\* the list, and the buffer holds no other live bit.
ConstructionSeedsExactly ==
    (op = "new" /\ Invalid(args) = {}) =>
        /\ \A p \in Positions(width, height) :
               Bit(cells, get_index(width, p[1], p[2])) <=> p \in Range(args)
        /\ Cardinality(Marked(cells)) = Cardinality(Range(args))

\* new with two cells listed against the row-major order, and new with one
\* cell listed twice, both off the diagonal of the grid
ConstructionWitness ==
    /\ op = "new"
    /\ args \in {<<<<2, 1>>, <<0, 3>>>>, <<<<1, 2>>, <<1, 2>>>>}
    /\ Live(cells, width, height) = Range(args)

\* C13: Edit-then-tick sequencing.  In every interleaving of tick,
\* toggle_cell and turn_cells_alive at coordinates of the grid, from a
\* universe built by new, every cell that is not marked dirty keeps its value
\* under the rule, so the edits made since the last tick are in the dirty set
\* the next tick consumes; and every tick leaves exactly the grid that a scan
\* of every cell of the grid before it leaves.
EditThenTick ==
    LET g == GridOf(cells, width, height)
    IN  /\ \A p \in Positions(width, height) :
               ~Bit(next_cells_to_be_updated, get_index(width, p[1], p[2]))
                   => NaiveStep(g, width, height, given_rule)[p] = g[p]
        /\ op = "tick" =>
               g = NaiveStep(GridOf(pre_cells, width, height), width, height, given_rule)

\* tick, an edit, tick: the second tick started from a partial dirty set that
\* the edit had added to, and changed the grid
EditThenTickWitness ==
    /\ op = "tick" /\ streak = 1 /\ gen = 2 /\ nops = 3 /\ ~panicked
    /\ pattern = Edited
    /\ \E i \in DOMAIN pre_dirty : ~pre_dirty[i]
    /\ cells # pre_cells

\* the positions whose value differs between two bitsets
Flipped(before, after, w, h) ==
    {p \in Positions(w, h) :
        Bit(before, get_index(w, p[1], p[2])) # Bit(after, get_index(w, p[1], p[2]))}

\* C14: The dirty set is rebuilt exactly each generation.  After a tick the
\* marked indices are exactly those of the 9-cell toroidal neighbourhoods of
\* the cells the tick flipped; no mark of the consumed set is left unless such
\* a flip made it again.
DirtySetRebuilt ==
    op = "tick" =>
        Marked(next_cells_to_be_updated) =
            UNION {{get_index(width, q[1], q[2]) : q \in Neighbourhood(width, height, p)} :
                       p \in Flipped(pre_cells, cells, width, height)}

\* a tick flipped some cell and left unmarked a cell that it had found marked
DirtySetRebuiltWitness ==
    /\ op = "tick" /\ gen >= 2
    /\ cells # pre_cells
    /\ \E i \in DOMAIN pre_dirty : pre_dirty[i] /\ ~next_cells_to_be_updated[i]
    /\ \E i \in DOMAIN pre_dirty : pre_dirty[i] /\ next_cells_to_be_updated[i]

Reverse(q) == [k \in 1..Len(q) |-> q[Len(q) + 1 - k]]

\* q started at its (k + 1)-th element, wrapping around
Rotate(q, k) == [j \in 1..Len(q) |-> q[((j - 1 + k) % Len(q)) + 1]]

\* q with its k-th and (k + 1)-th elements exchanged
SwapAt(q, k) ==
    [j \in 1..Len(q) |-> IF j = k THEN q[k + 1] ELSE IF j = k + 1 THEN q[k] ELSE q[j]]

ColumnMajor(w, h) == [k \in 1..(w * h) |-> <<(k - 1) % h, (k - 1) \div h>>]

\* orders in which the cells of the grid can be visited: the row-major order
\* started anywhere, forwards and backwards, with any two successive cells
\* exchanged, and the column-major order forwards and backwards
Orders(w, h) ==
    LET rm == RowMajor(w, h)
    IN  {Rotate(rm, k) : k \in 0..(w * h - 1)}
          \cup {Reverse(Rotate(rm, k)) : k \in 0..(w * h - 1)}
          \cup {SwapAt(rm, k) : k \in 1..(w * h - 1)}
          \cup {ColumnMajor(w, h), Reverse(ColumnMajor(w, h))}

\* C15: Order independence through double buffering.  A tick reads every
\* cell and every neighbour from the grid as it was when the tick started, so
\* visiting the cells in any other order leaves the same grid and the same
\* dirty set as the tick has left.
OrderIndependence ==
    [][op' = "tick" =>
          \A order \in Orders(width, height) :
              tick_in(order, rule, width, height, cells, next_cells_to_be_updated)
                  = [cells |-> cells', dirty |-> next_cells_to_be_updated',
                     ok |-> ~panicked']]_vars

\* a tick flipped two cells that are neighbours of each other
OrderIndependenceWitness ==
    /\ op = "tick"
    /\ \E p \in Flipped(pre_cells, cells, width, height) :
           \E q \in Flipped(pre_cells, cells, width, height) :
               p # q /\ q \in Neighbourhood(width, height, p)
    /\ tick_in(Reverse(RowMajor(width, height)), rule, width, height, pre_cells, pre_dirty).cells
           = cells

\* C16: Quiescence.  A tick that flips no cell leaves the dirty set empty,
\* and a tick that follows it changes neither the grid nor the dirty set; a
\* universe built from PositionSet::empty under a preset rule is all dead
\* with an empty dirty set after every tick.
Quiescence ==
    [][/\ (op' = "tick" /\ cells' = pre_cells') => Marked(next_cells_to_be_updated') = {}
       /\ (op = "tick" /\ cells = pre_cells /\ op' = "tick") =>
              /\ cells' = cells
              /\ next_cells_to_be_updated' = next_cells_to_be_updated
       /\ (pattern' = empty /\ given_rule' \in Presets /\ gen' >= 1) =>
              /\ Marked(cells') = {}
              /\ Marked(next_cells_to_be_updated') = {}]_vars

\* a tick found a live grid with an empty dirty set and left both as they were
QuiescenceWitness ==
    /\ op = "tick" /\ gen >= 2
    /\ Marked(pre_dirty) = {}
    /\ Marked(next_cells_to_be_updated) = {}
    /\ cells = pre_cells
    /\ Marked(cells) # {}

\* C17: Frame of the operations.  tick changes neither width, height nor the
\* rule; toggle_cell(r, c) with (r, c) in the grid negates cell (r, c) and
\* changes no other cell, dimension or rule; turn_cells_alive turns no live
\* cell dead, changes no cell whose position is not in its list, and changes
\* no dimension or rule.
FrameOfOperations ==
    [][/\ (op' \in {"tick", "toggle_cell", "turn_cells_alive"}) =>
              (width' = width /\ height' = height /\ rule' = rule)
       /\ (op' = "toggle_cell" /\ InRange(width, height, args')) =>
              \A p \in Positions(width, height) :
                  Bit(cells', get_index(width, p[1], p[2]))
                      = IF p = args' THEN ~Bit(cells, get_index(width, p[1], p[2]))
                        ELSE Bit(cells, get_index(width, p[1], p[2]))
       /\ (op' = "turn_cells_alive") =>
              \A p \in Positions(width, height) :
                  /\ Bit(cells, get_index(width, p[1], p[2]))
                         => Bit(cells', get_index(width, p[1], p[2]))
                  /\ p \notin Range(args')
                         => Bit(cells', get_index(width, p[1], p[2]))
                                = Bit(cells, get_index(width, p[1], p[2]))]_vars

\* C18: Preset rules with full survival.  Under Rule::freeze the live cells
\* after any number of ticks are the cells the universe was built with; under
\* Rule::life_without_death and Rule::modified_life_without_death every cell
\* alive before a tick is alive after it, so the cells the universe was
\* built with stay alive.
FullSurvival ==
    /\ given_rule = freeze => Live(cells, width, height) = Range(pattern)
    /\ (given_rule \in {life_without_death, modified_life_without_death}) =>
           /\ op = "tick" => \A i \in DOMAIN cells : pre_cells[i] => cells[i]
           /\ Range(pattern) \subseteq Live(cells, width, height)

\* a second or later tick under life_without_death kept every live cell and
\* added some
FullSurvivalWitness ==
    /\ op = "tick" /\ gen >= 2
    /\ given_rule = life_without_death
    /\ Marked(pre_cells) # {}
    /\ Marked(pre_cells) \subseteq Marked(cells)
    /\ Marked(pre_cells) # Marked(cells)

====
